---- MODULE Spec2Model ----
(***************************************************************************)
(* Model of bert_tess_fullframe_worker_2 (app_all_lambdas/jobs.py): the    *)
(* worker that, for every event of its work queue, collects the light      *)
(* curve fragments stored under the event's prefix, builds a table sorted  *)
(* by time, writes it to a local FITS file and uploads it to S3.           *)
(*                                                                         *)
(* Texts (event fields, the comma separated fields of a fragment) are      *)
(* strings; int()/float() are the partial conversions IsNumeric/ToNum.     *)
(* The eight fields of a fragment are kept as three: fields[1] is row[0]   *)
(* (midtime), fields[2] stands for row[1..3] (signal, background, dqflag), *)
(* fields[3] stands for row[4..7] (xpos, ypos, ra, dec).                   *)
(***************************************************************************)
EXTENDS Integers, Sequences, FiniteSets, TLC

VARIABLES
    work_queue,   \* events not yet taken by the for loop of line 52
    inbucket,     \* the fragment bucket: sequence of objects [key, body]
    store,        \* the artifact bucket: s3key -> artifact, for the keys present
    scratch,      \* files present under homedir
    pc,           \* position of the worker
    event,        \* the event being processed (last one taken)
    listing,      \* objects enumerated by the filter of line 99, in order
    idx,          \* number of fragments of listing already consumed
    lc_tab,       \* rows of the table: <<midtime, signal>>
    lc_pos,       \* lc_tab.meta position keys (RA_OBJ, DEC_OBJ, APCEN_X/Y)
    pos,          \* the locals xpos, ypos, ra, dec (they outlive an event)
    exc,          \* the uncaught exception that ended the worker
    outcome,      \* how the last event ended
    store0,       \* store when the current event was taken
    probe,        \* result of the load() of line 74 for the current event
    nlist, ndown, nparse, nupload, nerr
                  \* per event: listings, downloads, parsed fragments,
                  \* upload attempts, ologger.error calls

vars == <<work_queue, inbucket, store, scratch, pc, event, listing, idx,
          lc_tab, lc_pos, pos, exc, outcome, store0, probe,
          nlist, ndown, nparse, nupload, nerr>>

-----------------------------------------------------------------------------
(* Bounds and input families                                               *)

MaxQueue == 2
MaxObjs == 2

Unbound == "unbound"

\* the text of an event field whose key is not in the event
Missing == "<absent>"
NoEvent == [tic_id |-> "", sector |-> "", cutout_width |-> <<>>, use_cache |-> ""]

IsNumeric(s) == s \in {"0", "1", "2", "3"}

ToNum(s) == CASE s = "0" -> 0 [] s = "1" -> 1 [] s = "2" -> 2 [] s = "3" -> 3

RECURSIVE AllNumeric(_)
AllNumeric(ds) ==
    IF ds = <<>> THEN FALSE
    ELSE IsNumeric(Head(ds)) /\ (Len(ds) = 1 \/ AllNumeric(Tail(ds)))

FmtNum(n) == CASE n = 0 -> "0" [] n = 1 -> "1" [] n = 2 -> "2" [] n = 3 -> "3"

IsPrefix(p, k) == Len(p) <= Len(k) /\ SubSeq(k, 1, Len(p)) = p

Perms(n) == {f \in [1..n -> 1..n] : \A a, b \in 1..n : f[a] = f[b] => a = b}

Permute(s, f) == [j \in 1..Len(s) |-> s[f[j]]]

IsSortedByTime(t) == \A a, b \in 1..Len(t) : a < b => t[a][1] <= t[b][1]

-----------------------------------------------------------------------------
(* Names derived from an event, lines 53-64                                *)

\* int(event['sector']), int(event['cutout_width']) succeed
EventParses(e) == IsNumeric(e.sector) /\ AllNumeric(e.cutout_width)

\* the exception of the first conversion of lines 54-58 that fails
EventError(e) ==
    IF e.sector = Missing THEN "KeyError"
    ELSE IF ~IsNumeric(e.sector) THEN "ValueError"
    ELSE IF e.cutout_width = <<Missing>> THEN "KeyError"
    ELSE "ValueError"

\* sec_id, line 60 (camera and ccd are formatted like sector)
SecId(e) == FmtNum(ToNum(e.sector))

\* in_pfx, line 61 (radius is formatted like cutout_width)
InPfx(e) == <<e.tic_id, "/", SecId(e), "/", "w">> \o e.cutout_width

\* s3key, lines 62-63
S3Key(e) == <<e.tic_id, "/", e.tic_id, "_", SecId(e), "_lcc">>

\* outfilename, line 64: homedir joined with basename (line 62)
OutFileName(e) == <<"home", e.tic_id, "_", SecId(e), "_lcc">>

\* filename, line 101: homedir joined with the basename of the object key
FragFileName(obj) == <<"home", obj.key[Len(obj.key)]>>

\* lc_meta, lines 82-91, without the position keys added at line 126
LcMeta(e) == [OBJECT |-> e.tic_id, SECTOR |-> ToNum(e.sector),
              SKYWIDTH |-> e.cutout_width]

\* inbucket.objects.filter(Prefix=in_pfx), line 99: the matching objects
Matching(bucket, pfx) == SelectSeq(bucket, LAMBDA o : IsPrefix(pfx, o.key))

\* the orders in which the filter may enumerate the matching objects
Enumerations(objs) == {Permute(objs, f) : f \in Perms(Len(objs))}

-----------------------------------------------------------------------------
(* A fragment, lines 105-120                                               *)

\* fin.read() of line 106 decodes the bytes as text
ReadOK(body) == body.decodable

\* lines 111-118: every field is present and converts
RowParses(row) == Len(row) >= 3 /\ \A j \in 1..3 : IsNumeric(row[j])

\* the tuple of line 120
TableRow(row) == <<ToNum(row[1]), ToNum(row[2])>>

\* xpos, ypos, ra, dec of lines 115-118
RowPos(row) == row[3]

\* lc_tab.sort('TIME'), line 123: the default sort kind of numpy.argsort is
\* not stable, rows of equal TIME may come out in any order
SortOutcomes(t) ==
    {Permute(t, f) : f \in {g \in Perms(Len(t)) : IsSortedByTime(Permute(t, g))}}

\* s3.Object(bucket_name, s3key).load(), line 74
ProbeOutcomes(st, key) ==
    IF key \in DOMAIN st THEN {"ok", "error"} ELSE {"notfound", "error"}

\* bucket.upload_file(outfilename, s3key), line 139: an atomic put
Put(st, key, art) == [k \in DOMAIN st \cup {key} |-> IF k = key THEN art ELSE st[k]]

-----------------------------------------------------------------------------
(* Inputs                                                                  *)

Texts == <<"1", "2">>

\* fragments of three numeric fields, and three damaged ones: a
\* non-numeric field, a missing field, bytes that are not text
BodyList ==
    [i \in 1..11 |->
        IF i <= 8
        THEN [decodable |-> TRUE,
              fields |-> <<Texts[(((i - 1) \div 4) % 2) + 1],
                           Texts[(((i - 1) \div 2) % 2) + 1],
                           Texts[((i - 1) % 2) + 1]>>]
        ELSE IF i = 9 THEN [decodable |-> TRUE, fields |-> <<"x", "1", "1">>]
        ELSE IF i = 10 THEN [decodable |-> TRUE, fields |-> <<"1", "1">>]
        ELSE [decodable |-> FALSE, fields |-> <<>>]]

Width30 == <<"3", "0">>

Events ==
    [tic_id : {"1", "2"}, sector : {"1"}, cutout_width : {Width30},
     use_cache : {"true", "false"}]
    \cup {[tic_id |-> "1", sector |-> "x", cutout_width |-> Width30,
           use_cache |-> "true"]}

\* the objects of the fragment bucket, all stored for tic 1, sector 1, w30;
\* object j is named j, and the bodies are listed in the order of BodyList
\* (the enumeration order is chosen by ListFragments)
ObjKey(tic, sec, width, name) == <<tic, "/", sec, "/", "w">> \o width \o <<"/", name>>

BucketOf(c) ==
    [j \in 1..Len(c) |-> [key |-> ObjKey("1", "1", Width30, ToString(j)),
                          body |-> BodyList[c[j]]]]

Buckets ==
    UNION {{BucketOf(c) : c \in {d \in [1..n -> 1..Len(BodyList)] :
                                    \A a, b \in 1..n : a < b => d[a] <= d[b]}} :
           n \in 0..MaxObjs}

Queues == UNION {[1..n -> Events] : n \in 0..MaxQueue}

NoExc == [type |-> "none", at |-> "none"]

\* the worker before the first event, with nothing in the artifact bucket
\* and nothing in the home directory
InitWorker ==
    /\ store = <<>>
    /\ scratch = {}
    /\ pc = "next"
    /\ event = NoEvent
    /\ listing = <<>>
    /\ idx = 0
    /\ lc_tab = <<>>
    /\ lc_pos = Unbound
    /\ pos = Unbound
    /\ exc = NoExc
    /\ outcome = "none"
    /\ store0 = <<>>
    /\ probe = "none"
    /\ nlist = 0 /\ ndown = 0 /\ nparse = 0 /\ nupload = 0 /\ nerr = 0

Init ==
    /\ work_queue \in Queues
    /\ inbucket \in Buckets
    /\ InitWorker

\* Inputs that differ in the fields of the key: events for cutout widths 30
\* and 300, events with a field that is missing or not a number, and
\* well-formed fragments stored under w30/ and under w300/
Width300 == <<"3", "0", "0">>

EventsKeys ==
    [tic_id : {"1"}, sector : {"1"}, cutout_width : {Width30, Width300},
     use_cache : {"true", "false"}]
    \cup [tic_id : {"1"}, sector : {"x", Missing}, cutout_width : {Width30},
          use_cache : {"true"}]
    \cup [tic_id : {"1"}, sector : {"1"}, cutout_width : {<<"x">>, <<Missing>>},
          use_cache : {"true"}]
    \cup {[tic_id |-> "1", sector |-> "1", cutout_width |-> Width30,
           use_cache |-> Missing]}

KindList ==
    <<[width |-> Width30, body |-> BodyList[2]],
      [width |-> Width30, body |-> BodyList[5]],
      [width |-> Width300, body |-> BodyList[2]],
      [width |-> Width300, body |-> BodyList[5]]>>

BucketOfKinds(c) ==
    [j \in 1..Len(c) |->
        [key |-> ObjKey("1", "1", KindList[c[j]].width, ToString(j)),
         body |-> KindList[c[j]].body]]

BucketsKeys ==
    UNION {{BucketOfKinds(c) : c \in {d \in [1..n -> 1..Len(KindList)] :
                                    \A a, b \in 1..n : a < b => d[a] <= d[b]}} :
           n \in 0..MaxObjs}

QueuesKeys == UNION {[1..n -> EventsKeys] : n \in 0..MaxQueue}

InitKeys ==
    /\ work_queue \in QueuesKeys
    /\ inbucket \in BucketsKeys
    /\ InitWorker

-----------------------------------------------------------------------------
(* The worker                                                              *)

\* an exception nobody catches leaves the for loop and the function
Raise(type, at) ==
    /\ pc' = "raised"
    /\ exc' = [type |-> type, at |-> at]
    /\ outcome' = "raised"

\* NextEvent dropping an event whose fields do not convert and going on with
\* the next one
NextEventSkipping ==
    /\ pc = "next"
    /\ work_queue # <<>>
    /\ work_queue' = Tail(work_queue)
    /\ event' = Head(work_queue)
    /\ store0' = store
    /\ probe' = "none"
    /\ listing' = <<>> /\ idx' = 0
    /\ nlist' = 0 /\ ndown' = 0 /\ nparse' = 0 /\ nupload' = 0 /\ nerr' = 0
    /\ IF EventParses(Head(work_queue))
       THEN pc' = "cache" /\ outcome' = "none"
       ELSE pc' = "next" /\ outcome' = "skipped"
    /\ UNCHANGED <<inbucket, store, scratch, lc_tab, lc_pos, pos, exc>>

\* line 52 with lines 53-64: take the next event, convert its fields
NextEvent ==
    /\ pc = "next"
    /\ work_queue # <<>>
    /\ work_queue' = Tail(work_queue)
    /\ event' = Head(work_queue)
    /\ store0' = store
    /\ probe' = "none"
    /\ listing' = <<>> /\ idx' = 0
    /\ nlist' = 0 /\ ndown' = 0 /\ nparse' = 0 /\ nupload' = 0 /\ nerr' = 0
    /\ IF EventParses(Head(work_queue))
       THEN pc' = "cache" /\ outcome' = "none" /\ UNCHANGED exc
       ELSE Raise(EventError(Head(work_queue)), "event")
    /\ UNCHANGED <<inbucket, store, scratch, lc_tab, lc_pos, pos>>

\* line 52: the queue is exhausted, the function returns
Return ==
    /\ pc = "next"
    /\ work_queue = <<>>
    /\ pc' = "returned"
    /\ UNCHANGED <<work_queue, inbucket, store, scratch, event, listing, idx,
                   lc_tab, lc_pos, pos, exc, outcome, store0, probe,
                   nlist, ndown, nparse, nupload, nerr>>

\* AfterProbe taking a failed probe for a hit
AfterProbeFailClosed(use_cache, r) ==
    IF use_cache /\ r \in {"ok", "error"} THEN "next" ELSE "list"

\* AfterProbe with the two branches of the try statement exchanged
AfterProbeExchanged(use_cache, r) == IF use_cache /\ r # "ok" THEN "next" ELSE "list"

\* where lines 72-79 go after the probe answered r
AfterProbe(use_cache, r) == IF use_cache /\ r = "ok" THEN "next" ELSE "list"

\* Probes probing whatever the event says
ProbesAlways(use_cache, st, key) == ProbeOutcomes(st, key)

\* line 72: the probe of line 74 is made only when use_cache is set
Probes(use_cache, st, key) ==
    IF use_cache THEN ProbeOutcomes(st, key) ELSE {"none"}

\* lines 68-96: the cache check, then the empty table
CacheCheck ==
    /\ pc = "cache"
    /\ IF event.use_cache = Missing
       THEN /\ Raise("KeyError", "event")
            /\ UNCHANGED <<probe, lc_tab, lc_pos>>
       ELSE /\ UNCHANGED exc
            /\ LET use_cache == event.use_cache = "true" IN
               \E r \in Probes(use_cache, store, S3Key(event)) :
                  /\ probe' = r
                  /\ pc' = AfterProbe(use_cache, r)
                  /\ IF AfterProbe(use_cache, r) = "next"
                     THEN outcome' = "skipped" /\ UNCHANGED <<lc_tab, lc_pos>>
                     ELSE outcome' = outcome /\ lc_tab' = <<>> /\ lc_pos' = Unbound
    /\ UNCHANGED <<work_queue, inbucket, store, scratch, event, listing, idx,
                   pos, store0, nlist, ndown, nparse, nupload, nerr>>

\* lines 99-100: the filter enumerates the objects under in_pfx
ListFragments ==
    /\ pc = "list"
    /\ nlist' = nlist + 1
    /\ \/ /\ listing' \in Enumerations(Matching(inbucket, InPfx(event)))
          /\ idx' = 0
          /\ pc' = IF listing' = <<>> THEN "sort" ELSE "fetch"
          /\ UNCHANGED <<exc, outcome>>
       \/ /\ Raise("ClientError", "list")
          /\ UNCHANGED <<listing, idx>>
    /\ UNCHANGED <<work_queue, inbucket, store, scratch, event, lc_tab, lc_pos,
                   pos, store0, probe, ndown, nparse, nupload, nerr>>

\* lines 101-103: download the next object to the home directory
DownloadFragment ==
    /\ pc = "fetch"
    /\ ndown' = ndown + 1
    /\ \/ /\ scratch' = scratch \cup {FragFileName(listing[idx + 1])}
          /\ pc' = "read"
          /\ UNCHANGED <<exc, outcome>>
       \/ /\ Raise("ClientError", "download")
          /\ UNCHANGED scratch
    /\ UNCHANGED <<work_queue, inbucket, store, event, listing, idx, lc_tab,
                   lc_pos, pos, store0, probe, nlist, nparse, nupload, nerr>>

\* where the for loop of line 99 goes after n of the listed objects
AfterRow(n, objs) == IF n < Len(objs) THEN "fetch" ELSE "sort"

\* PosAfterRow keeping the position of the first row converted
PosAfterRowFirst(old, row) == IF old = Unbound THEN RowPos(row) ELSE old

\* the value the locals xpos, ypos, ra, dec hold after a row was converted
PosAfterRow(old, row) == RowPos(row)

\* AddRow merging a row into one of the same TIME already in the table
AddRowMerged(t, r) ==
    IF \E j \in 1..Len(t) : t[j][1] = r[1] THEN t ELSE Append(t, r)

\* lc_tab.add_row, line 120
AddRow(t, r) == Append(t, r)

\* BadRow skipping the fragment and going on with the next one
BadRowSkipped ==
    /\ idx' = idx + 1
    /\ pc' = AfterRow(idx + 1, listing)
    /\ UNCHANGED <<lc_tab, pos, nparse, exc, outcome>>

\* lines 111-118 on a row that does not convert: the exception of int() or
\* float(), or of the subscript, is not caught
BadRow ==
    /\ Raise("ValueError", "parse")
    /\ UNCHANGED <<idx, lc_tab, pos, nparse>>

\* lines 105-120: read the file, remove it, convert the fields, add the row
ReadFragment ==
    /\ pc = "read"
    /\ LET obj == listing[idx + 1]
           row == obj.body.fields
       IN  IF ~ReadOK(obj.body)
           THEN /\ Raise("UnicodeDecodeError", "read")
                /\ UNCHANGED <<scratch, idx, lc_tab, pos, nparse>>
           ELSE /\ scratch' = scratch \ {FragFileName(obj)}
                /\ IF RowParses(row)
                   THEN /\ lc_tab' = AddRow(lc_tab, TableRow(row))
                        /\ pos' = PosAfterRow(pos, row)
                        /\ idx' = idx + 1
                        /\ nparse' = nparse + 1
                        /\ pc' = AfterRow(idx + 1, listing)
                        /\ UNCHANGED <<exc, outcome>>
                   ELSE BadRow
    /\ UNCHANGED <<work_queue, inbucket, store, event, listing, lc_pos,
                   store0, probe, nlist, ndown, nupload, nerr>>

\* line 123
SortTable ==
    /\ pc = "sort"
    /\ lc_tab' \in SortOutcomes(lc_tab)
    /\ pc' = "meta"
    /\ UNCHANGED <<work_queue, inbucket, store, scratch, event, listing, idx,
                   lc_pos, pos, exc, outcome, store0, probe,
                   nlist, ndown, nparse, nupload, nerr>>

\* lines 126-130: the position keys are read from the locals
UpdateMeta ==
    /\ pc = "meta"
    /\ IF pos = Unbound
       THEN Raise("UnboundLocalError", "meta") /\ UNCHANGED lc_pos
       ELSE lc_pos' = pos /\ pc' = "write" /\ UNCHANGED <<exc, outcome>>
    /\ UNCHANGED <<work_queue, inbucket, store, scratch, event, listing, idx,
                   lc_tab, pos, store0, probe,
                   nlist, ndown, nparse, nupload, nerr>>

\* lines 134-135: write the table to outfilename
WriteFits ==
    /\ pc = "write"
    /\ \/ /\ scratch' = scratch \cup {OutFileName(event)}
          /\ pc' = "upload"
          /\ UNCHANGED <<exc, outcome>>
       \/ /\ Raise("OSError", "write")
          /\ scratch' \in {scratch, scratch \cup {OutFileName(event)}}
    /\ UNCHANGED <<work_queue, inbucket, store, event, listing, idx, lc_tab,
                   lc_pos, pos, store0, probe,
                   nlist, ndown, nparse, nupload, nerr>>

\* the table and header written to the file of line 134
Artifact == [meta |-> LcMeta(event), position |-> lc_pos, rows |-> lc_tab]

\* UploadResult of a put that is not atomic: a failed upload leaves the
\* header without the rows
UploadResultPartial(st, key, art, ok) ==
    Put(st, key, IF ok THEN art ELSE [art EXCEPT !.rows = <<>>])

\* what the upload of line 139 leaves in the bucket
UploadResult(st, key, art, ok) == IF ok THEN Put(st, key, art) ELSE st

\* Upload trying again after a failure
UploadRetried ==
    /\ pc = "upload"
    /\ nupload < 2
    /\ nupload' = nupload + 1
    /\ \E ok \in BOOLEAN :
          /\ store' = UploadResult(store, S3Key(event), Artifact, ok)
          /\ nerr' = IF ok THEN nerr ELSE nerr + 1
          /\ outcome' = IF ok THEN "uploaded"
                        ELSE IF nupload = 0 THEN outcome ELSE "upload_failed"
          /\ pc' = IF ~ok /\ nupload = 0 THEN "upload" ELSE "next"
          /\ scratch' = IF ~ok /\ nupload = 0 THEN scratch
                        ELSE scratch \ {OutFileName(event)}
    /\ UNCHANGED <<work_queue, inbucket, event, listing, idx, lc_tab, lc_pos,
                   pos, exc, store0, probe, nlist, ndown, nparse>>

\* lines 138-147: one upload; a failure is logged; the file is removed
Upload ==
    /\ pc = "upload"
    /\ nupload' = nupload + 1
    /\ \E ok \in BOOLEAN :
          /\ store' = UploadResult(store, S3Key(event), Artifact, ok)
          /\ nerr' = IF ok THEN nerr ELSE nerr + 1
          /\ outcome' = IF ok THEN "uploaded" ELSE "upload_failed"
    /\ scratch' = scratch \ {OutFileName(event)}
    /\ pc' = "next"
    /\ UNCHANGED <<work_queue, inbucket, event, listing, idx, lc_tab, lc_pos,
                   pos, exc, store0, probe, nlist, ndown, nparse>>

Next ==
    \/ NextEvent
    \/ Return
    \/ CacheCheck
    \/ ListFragments
    \/ DownloadFragment
    \/ ReadFragment
    \/ SortTable
    \/ UpdateMeta
    \/ WriteFits
    \/ Upload

Spec == Init /\ [][Next]_vars

SpecKeys == InitKeys /\ [][Next]_vars

-----------------------------------------------------------------------------
(* Properties                                                              *)

\* the last event taken has ended (by continue, by the end of the loop body
\* or by an exception)
Ended == outcome # "none"

\* the last event taken has ended and its fields converted
EndedValid == Ended /\ EventParses(event)

NoWork == nlist = 0 /\ ndown = 0 /\ nparse = 0 /\ nupload = 0

\* the rows of the listed fragments, in the order of enumeration
RowsListed == [j \in 1..Len(listing) |-> TableRow(listing[j].body.fields)]

\* the fragments of the listing whose fields are missing or not numeric
Malformed(objs) ==
    {j \in 1..Len(objs) : ReadOK(objs[j].body) /\ ~RowParses(objs[j].body.fields)}

FirstMalformed(objs) ==
    CHOOSE j \in Malformed(objs) : \A k \in Malformed(objs) : j <= k

RECURSIVE InsertByTime(_, _)
InsertByTime(r, t) ==
    IF t = <<>> THEN <<r>>
    ELSE IF t[Len(t)][1] <= r[1] THEN Append(t, r)
    ELSE Append(InsertByTime(r, SubSeq(t, 1, Len(t) - 1)), t[Len(t)])

RECURSIVE StableSortByTime(_)
StableSortByTime(t) ==
    IF t = <<>> THEN <<>>
    ELSE InsertByTime(t[Len(t)], StableSortByTime(SubSeq(t, 1, Len(t) - 1)))

\* C1 as stated: an event with use_cache true whose s3key held an object when
\* the event was taken ends skipped, with no listing, download, parse, upload.
C1_CacheHitWheneverPresent ==
    (EndedValid /\ event.use_cache = "true" /\ S3Key(event) \in DOMAIN store0)
        => (outcome = "skipped" /\ NoWork)

\* C1 amended: an event with use_cache true whose s3key held an object when
\* the event was taken, and whose load() of that object did not fail, ends
\* skipped, with no listing, no download, no parse and no upload.
C1_CacheHitWhenProbed ==
    (EndedValid /\ event.use_cache = "true" /\ S3Key(event) \in DOMAIN store0
        /\ probe # "error")
        => (outcome = "skipped" /\ NoWork /\ store = store0 /\ exc = NoExc)

C1_Witness ==
    /\ outcome = "skipped" /\ probe = "ok"
    /\ S3Key(event) \in DOMAIN store0
    /\ pc = "next"

\* C2: once an event has ended, however it ended, no file of the home
\* directory made for it (a downloaded fragment, the FITS file) is left.
C2_NoScratchLeft == Ended => scratch = {}

\* C3: the artifact bucket changes only by the upload of a table that holds
\* one row for every object under the prefix, sorted, and written to the
\* local file; an event that ends by an exception or a failed upload leaves
\* the bucket as it was when the event was taken.
C3_NoPartialPublication ==
    [][/\ store' # store =>
            /\ pc = "upload"
            /\ Len(listing) = Len(Matching(inbucket, InPfx(event)))
            /\ idx = Len(listing)
            /\ Len(lc_tab) = Len(listing)
            /\ IsSortedByTime(lc_tab)
            /\ OutFileName(event) \in scratch
            /\ store' = Put(store, S3Key(event), Artifact)
            /\ outcome' = "uploaded"
       /\ outcome' \in {"raised", "upload_failed"} => store' = store0']_vars

C3_Witness ==
    /\ outcome = "upload_failed"
    /\ S3Key(event) \in DOMAIN store
    /\ store = store0
    /\ Len(lc_tab) >= 2

\* C4: the rows uploaded for a non-empty listing are in non-decreasing order
\* of TIME, rows of equal TIME in the order of enumeration: they are the
\* stable sort of the rows in the order of enumeration.
C4_SortedAndStable ==
    (outcome = "uploaded" /\ listing # <<>>)
        => /\ IsSortedByTime(store[S3Key(event)].rows)
           /\ store[S3Key(event)].rows = StableSortByTime(RowsListed)

\* C5 as stated: an event that is not skipped makes exactly one upload
\* attempt, a skipped one makes none.
C5_OneUploadUnlessCached ==
    Ended => (nupload = IF outcome = "skipped" THEN 0 ELSE 1)

\* C5 amended: there is never more than one upload attempt for an event; an
\* event that reaches the upload (its table was written to the local file)
\* makes exactly one, also when it fails; a skipped event and an event ended
\* by an exception make none.
C5_OneUploadWhenBuilt ==
    /\ nupload <= 1
    /\ outcome \in {"uploaded", "upload_failed"} => nupload = 1
    /\ outcome \in {"skipped", "raised"} => nupload = 0
    /\ pc = "upload" => nupload = 0

C5_Witness == outcome = "upload_failed" /\ nupload = 1 /\ pc = "next"

\* C6: when the upload fails, the event ends failed: one error is logged and
\* the exception leaves the worker (it does not go on to the next event).
C6_PublishFailureReported ==
    outcome = "upload_failed" => (nerr = 1 /\ pc = "raised" /\ exc # NoExc)

\* C7: when a listed fragment has a missing or non-numeric field, the loop
\* never gets past the first such fragment and no row of it or of a later
\* fragment is added; the event ends by an exception and leaves the bucket
\* as it was; the fragment, once read, raises the conversion error and no
\* file is left.
C7_MalformedAborts ==
    (EventParses(event) /\ Malformed(listing) # {})
        => /\ idx < FirstMalformed(listing)
           /\ Len(lc_tab) < FirstMalformed(listing)
           /\ Ended => (outcome = "raised" /\ store = store0 /\ nupload = 0)
           /\ exc.at = "parse"
                  => /\ exc.type = "ValueError"
                     /\ idx + 1 = FirstMalformed(listing)
                     /\ scratch = {}

\* the malformed fragment is followed by a well-formed one, which is left out
C7_Witness ==
    /\ exc.at = "parse"
    /\ Len(listing) > idx + 1
    /\ ReadOK(listing[idx + 2].body)
    /\ RowParses(listing[idx + 2].body.fields)
    /\ ndown = idx + 1
    /\ scratch = {}

\* C8: an event whose listing is empty has an empty table without position
\* keys; it ends by the failure of the write, or with the upload of an empty
\* table without position keys (or its failed upload); it does not end by
\* another exception.
C8_EmptyListing ==
    (EndedValid /\ nlist = 1 /\ exc.at # "list" /\ listing = <<>>)
        => /\ lc_tab = <<>>
           /\ lc_pos = Unbound
           /\ outcome = "raised" => exc.at = "write"
           /\ outcome = "uploaded"
                  => /\ store[S3Key(event)].rows = <<>>
                     /\ store[S3Key(event)].position = Unbound

\* C9: the artifact uploaded for an event is made of that event's fields and
\* of its own fragments: its header is the event's, its rows are the rows of
\* its listing, its position keys are those of one of its fragments.
C9_NoCrossRequestState ==
    outcome = "uploaded"
        => LET art == store[S3Key(event)] IN
           /\ art.meta = LcMeta(event)
           /\ \E f \in Perms(Len(listing)) : art.rows = Permute(RowsListed, f)
           /\ \E j \in 1..Len(listing) :
                  art.position = RowPos(listing[j].body.fields)

\* C10: the position keys of the artifact uploaded for a non-empty listing
\* are those of the fragment enumerated last.
C10_PositionOfLastEnumerated ==
    (outcome = "uploaded" /\ listing # <<>>)
        => store[S3Key(event)].position
               = RowPos(listing[Len(listing)].body.fields)

\* the fragment enumerated last is not the latest in TIME, and the latest
\* has another position
C10_Witness ==
    /\ outcome = "uploaded"
    /\ Len(listing) >= 2
    /\ \E j \in 1..Len(listing) :
          /\ RowsListed[j][1] > RowsListed[Len(listing)][1]
          /\ RowPos(listing[j].body.fields)
                 # RowPos(listing[Len(listing)].body.fields)
          /\ store[S3Key(event)].position
                 # RowPos(listing[j].body.fields)

\* C11: two uploads for the same event fields over the same objects of the
\* fragment bucket (which never changes) leave the same artifact, whatever
\* the order of enumeration: when an event uploads to a key that already
\* held an artifact made for the same fields, the new artifact (header,
\* position keys, rows in order) equals the old one.
C11_SameArtifactOnRerun ==
    (outcome = "uploaded" /\ S3Key(event) \in DOMAIN store0
        /\ store0[S3Key(event)].meta = LcMeta(event))
        => store[S3Key(event)] = store0[S3Key(event)]

\* C12: a load() answered "not found" lets the event go on to the listing
\* without an exception; a load() that fails in another way is told apart
\* from it: right after the probe the failure has left the try statement as
\* an exception of the probe, or has been logged as an error.
C12_ProbeErrorDistinguished ==
    /\ (probe = "notfound" /\ pc = "list") => (exc = NoExc /\ outcome = "none")
    /\ (probe = "error" /\ pc \in {"list", "next", "raised"} /\ nlist = 0)
           => (exc.at = "probe" \/ nerr >= 1)

\* C13: an event with a missing field, or whose sector or cutout_width is
\* not a number, ends at once by the exception of the conversion (KeyError,
\* ValueError), before any probe, listing, download, local file or upload
\* was made for it; the artifact bucket is as it was.
C13_InvalidEventRaisesFirst ==
    (event # NoEvent /\ ~(EventParses(event) /\ event.use_cache # Missing))
        => /\ NoWork
           /\ probe = "none"
           /\ scratch = {}
           /\ store = store0
           /\ nerr = 0
           /\ pc \in {"cache", "raised"}
           /\ pc = "cache" => (EventParses(event) /\ outcome = "none")
           /\ pc = "raised"
                  => /\ outcome = "raised"
                     /\ exc.at = "event"
                     /\ exc.type \in {"KeyError", "ValueError"}

\* an event with a cutout_width that is not a number, after an upload
C13_Witness ==
    /\ pc = "raised"
    /\ exc = [type |-> "ValueError", at |-> "event"]
    /\ event.cutout_width = <<"x">>
    /\ store # <<>>

C15_FailOpen ==
    probe = "error"
        => /\ event.use_cache = "true"
           /\ outcome # "skipped"
           /\ pc # "cache"
           /\ pc = "list" => (lc_tab = <<>> /\ nlist = 0 /\ outcome = "none")
           /\ pc # "list" => nlist = 1

\* the artifact was there, the probe failed, the artifact was made again
C15_Witness ==
    /\ probe = "error"
    /\ S3Key(event) \in DOMAIN store0
    /\ outcome = "uploaded"
    /\ nparse >= 1

\* C16: an event is skipped only when its use_cache is 'true' (and the probe
\* found the object); for an event with another use_cache no probe is made,
\* the listing follows, and its upload replaces whatever the key held by
\* the table just built.
C16_CacheIsOptIn ==
    /\ outcome = "skipped" => (event.use_cache = "true" /\ probe = "ok")
    /\ (event # NoEvent /\ EventParses(event) /\ event.use_cache = "false"
            /\ pc # "cache")
           => /\ probe = "none"
              /\ outcome # "skipped"
              /\ pc = "list" \/ nlist = 1
              /\ outcome = "uploaded" => store[S3Key(event)] = Artifact

\* an artifact that was there is replaced by another one
C16_Witness ==
    /\ event.use_cache = "false"
    /\ outcome = "uploaded"
    /\ S3Key(event) \in DOMAIN store0
    /\ store[S3Key(event)] # store0[S3Key(event)]

\* C17: an event is skipped only when the artifact found at its s3key was
\* made for the same key (its header has the event's OBJECT, SECTOR and
\* SKYWIDTH); events that differ in a field of the key have different
\* s3keys: the s3key of an event never holds an artifact made for an
\* event with other fields.
C17_CacheHitMatchesKey ==
    /\ outcome = "skipped" => store[S3Key(event)].meta = LcMeta(event)
    /\ (event # NoEvent /\ EventParses(event) /\ S3Key(event) \in DOMAIN store0)
           => store0[S3Key(event)].meta = LcMeta(event)

\* C18: every fragment whose row was added to the table of an event is
\* stored under the directory of the event's own prefix, cutout width
\* included: in_pfx followed by "/".
C18_ListingMatchesKey ==
    \A j \in 1..idx : IsPrefix(InPfx(event) \o <<"/">>, listing[j].key)

====
